---- MODULE Spec2Model ----
(***************************************************************************)
(* A model of kinoml/core/measurements.py: the measurement value objects   *)
(* (BaseMeasurement and its four subclasses), their range checks, the      *)
(* observation-model lookup by backend name, and the observation-model     *)
(* formulas themselves.                                                    *)
(*                                                                         *)
(* The interpreter is taken to run with assertions enabled (no -O).        *)
(***************************************************************************)
EXTENDS Integers, Sequences, FiniteSets, TLC

VARIABLES a, b, strictBuilt, pending, last

vars == <<a, b, strictBuilt, pending, last>>

(***************************************************************************)
(* Bounds of the model.                                                    *)
(***************************************************************************)
\* Longest iterable handed to a constructor as values / errors.
MaxLen == 2
\* Most rows of the arrays handed to an observation-model formula.
MaxRows == 2

(***************************************************************************)
(* Python values.                                                          *)
(***************************************************************************)
\* A float of a measurement: a number, or not-a-number.
Float(v) == [nan |-> FALSE, v |-> v]
NaN == [nan |-> TRUE, v |-> 0]

\* IEEE comparisons: every comparison with not-a-number is false.
float_le(x, y) == ~x.nan /\ ~y.nan /\ x.v <= y.v
float_eq(x, y) == ~x.nan /\ ~y.nan /\ x.v = y.v

\* Outcome of a call: it returns a value or raises an exception.
Return(v) == [raised |-> FALSE, ret |-> v]
Raise(type, msg) == [raised |-> TRUE, exc |-> [type |-> type, msg |-> msg]]

\* An argument that is a scalar or an iterable of floats.
Scalar(x) == [scalar |-> TRUE, data |-> <<x>>]
Iterable(xs) == [scalar |-> FALSE, data |-> xs]

\* Optional arguments (None or a value) are sequences of length 0 or 1.
None == <<>>
Some(x) == <<x>>

(***************************************************************************)
(* numpy helpers used by the class.                                        *)
(***************************************************************************)
\* np.reshape(x, (1,)): the data must hold exactly one element.
np_reshape_1(x) ==
    IF Len(x.data) = 1
    THEN Return(x.data)
    ELSE Raise("ValueError", <<"cannot reshape array of size ", Len(x.data), " into shape (1,)">>)

\* (arr1 == arr2) element-wise, for arrays of one shape.
np_eq(xs, ys) == [i \in DOMAIN xs |-> float_eq(xs[i], ys[i])]

\* arr.all()
np_all(bs) == \A i \in DOMAIN bs : bs[i]

\* lo <= arr <= hi is (lo <= arr) and (arr <= hi): the first comparison's
\* array is converted to a truth value, which only an array of one element has.
chained_le(lo, arr, hi) ==
    LET first == [i \in DOMAIN arr |-> float_le(lo, arr[i])]
        second == [i \in DOMAIN arr |-> float_le(arr[i], hi)]
    IN  IF Len(arr) # 1
        THEN Raise("ValueError", <<"The truth value of an array is ambiguous">>)
        ELSE IF ~first[1] THEN Return(first) ELSE Return(second)

(***************************************************************************)
(* The collaborators: AssayConditions and System are value objects, equal  *)
(* when they hold the same data.                                           *)
(***************************************************************************)
AssayConditions_eq(c1, c2) == c1 = c2
System_eq(s1, s2) == s1 = s2

(***************************************************************************)
(* The class hierarchy.                                                    *)
(***************************************************************************)
Subclasses == {"PercentageDisplacementMeasurement", "pIC50Measurement",
               "pKiMeasurement", "pKdMeasurement"}
Classes == {"BaseMeasurement"} \cup Subclasses

\* Method resolution order of a class.
MRO(cls) == IF cls = "BaseMeasurement" THEN <<cls>> ELSE <<cls, "BaseMeasurement">>

\* The names a class body defines.
ClassDict(cls) ==
    IF cls = "BaseMeasurement"
    THEN {"__init__", "values", "errors", "observation_model", "_observation_model",
          "_observation_model_pytorch", "_observation_model_xgboost", "check",
          "__eq__", "__repr__"}
    ELSE {"check", "_observation_model_pytorch", "_observation_model_xgboost"}

\* getattr(cls, name): the first class of the MRO that defines the name.
getattr(cls, name) ==
    LET hits == {i \in DOMAIN MRO(cls) : name \in ClassDict(MRO(cls)[i])}
    IN  IF hits = {}
        THEN Raise("AttributeError", <<cls, name>>)
        ELSE Return([owner |-> MRO(cls)[CHOOSE i \in hits : \A j \in hits : i <= j],
                     name |-> name])

\* The formulas whose body is only raise NotImplementedError.
IsPlaceholder(method) ==
    \/ method.owner = "BaseMeasurement"
    \/ /\ method.owner \in {"PercentageDisplacementMeasurement", "pKiMeasurement",
                            "pKdMeasurement"}
       /\ method.name = "_observation_model_xgboost"

(***************************************************************************)
(* Methods.  A method is an operator of the object (and its arguments)     *)
(* giving the object afterwards and the call's outcome.                    *)
(***************************************************************************)
Effect(self, out) == [self |-> self, out |-> out]

BaseMeasurement_check(self) == Effect(self, Return("None"))

PercentageDisplacementMeasurement_check(self) ==
    LET sup == BaseMeasurement_check(self)
        cmp == chained_le(Float(0), sup.self._values, Float(100))
    IN  IF sup.out.raised THEN sup
        ELSE IF cmp.raised THEN Effect(sup.self, cmp)
        ELSE IF np_all(cmp.ret) THEN Effect(sup.self, Return("None"))
        ELSE Effect(sup.self, Raise("AssertionError",
                                    <<"One or more values are not in ", "[0, 100]">>))

pIC50Measurement_check(self) ==
    LET sup == BaseMeasurement_check(self)
        msg == <<"Values for ", self.cls, " are expected to be in the ", "[0, 15]", " range.">>
        cmp == chained_le(Float(0), sup.self._values, Float(15))
    IN  IF sup.out.raised THEN sup
        ELSE IF cmp.raised THEN Effect(sup.self, cmp)
        ELSE IF np_all(cmp.ret) THEN Effect(sup.self, Return("None"))
        ELSE Effect(sup.self, Raise("AssertionError", msg))

pKiMeasurement_check(self) ==
    LET sup == BaseMeasurement_check(self)
        msg == <<"Values for ", self.cls, " are expected to be in the ", "[0, 15]", " range.">>
        cmp == chained_le(Float(0), sup.self._values, Float(15))
    IN  IF sup.out.raised THEN sup
        ELSE IF cmp.raised THEN Effect(sup.self, cmp)
        ELSE IF np_all(cmp.ret) THEN Effect(sup.self, Return("None"))
        ELSE Effect(sup.self, Raise("AssertionError", msg))

pKdMeasurement_check(self) ==
    LET sup == BaseMeasurement_check(self)
        msg == <<"Values for ", self.cls, " are expected to be in the ", "[0, 15]", " range.">>
        cmp == chained_le(Float(0), sup.self._values, Float(15))
    IN  IF sup.out.raised THEN sup
        ELSE IF cmp.raised THEN Effect(sup.self, cmp)
        ELSE IF np_all(cmp.ret) THEN Effect(sup.self, Return("None"))
        ELSE Effect(sup.self, Raise("AssertionError", msg))

\* self.check(), dispatched on the object's class.
check(self) ==
    CASE self.cls = "BaseMeasurement" -> BaseMeasurement_check(self)
      [] self.cls = "PercentageDisplacementMeasurement" ->
             PercentageDisplacementMeasurement_check(self)
      [] self.cls = "pIC50Measurement" -> pIC50Measurement_check(self)
      [] self.cls = "pKiMeasurement" -> pKiMeasurement_check(self)
      [] self.cls = "pKdMeasurement" -> pKdMeasurement_check(self)

\* x or default for an optional collection: None and the empty one are falsy.
or_default(x, default) == IF x = None \/ x[1] = default THEN default ELSE x[1]

\* cls(values, conditions, system, errors, groups, strict, metadata)
BaseMeasurement_init(args) ==
    LET v == np_reshape_1(args.values)
        e == np_reshape_1(args.errors)
        self == [cls |-> args.cls,
                 _values |-> v.ret,
                 _errors |-> e.ret,
                 conditions |-> args.conditions,
                 system |-> args.system,
                 groups |-> or_default(args.groups, {}),
                 metadata |-> or_default(args.metadata, {})]
    IN  IF v.raised THEN v
        ELSE IF e.raised THEN e
        ELSE IF args.strict
             THEN LET c == check(self)
                  IN  IF c.out.raised THEN c.out ELSE Return(c.self)
             ELSE Return(self)

\* The values and errors properties: a getter and no setter.
BaseMeasurement_set_values_Assigns(self, v) ==
    Effect([self EXCEPT !._values = v], Return("None"))

BaseMeasurement_values(self) == Effect(self, Return(self._values))
BaseMeasurement_errors(self) == Effect(self, Return(self._errors))
BaseMeasurement_set_values(self, v) ==
    Effect(self, Raise("AttributeError", <<"can't set attribute">>))
BaseMeasurement_set_errors(self, v) ==
    Effect(self, Raise("AttributeError", <<"can't set attribute">>))

\* cls._observation_model(backend)
BaseMeasurement__observation_model_Calls(cls, backend) ==
    LET method == getattr(cls, "_observation_model_" \o backend)
    IN  IF method.raised
        THEN Raise("NotImplementedError",
                   <<"Observation model for backend ", backend,
                     " is not available for ", cls, " types">>)
        ELSE IF IsPlaceholder(method.ret)
             THEN Raise("NotImplementedError", <<"Implement in your subclass!">>)
             ELSE Raise("TypeError", <<"missing 1 required positional argument">>)

BaseMeasurement__observation_model(cls, backend) ==
    LET method == getattr(cls, "_observation_model_" \o backend)
    IN  IF method.raised
        THEN Raise("NotImplementedError",
                   <<"Observation model for backend ", backend,
                     " is not available for ", cls, " types">>)
        ELSE method

\* cls.observation_model(backend)
BaseMeasurement_observation_model(cls, backend) ==
    BaseMeasurement__observation_model(cls, backend)

\* self == other: a chain of and, which gives its first falsy operand or its last.
BaseMeasurement_eq_NoSystem(self, other) ==
    Effect(self,
           IF ~np_all(np_eq(self._values, other._values)) THEN Return(FALSE)
           ELSE Return(AssayConditions_eq(self.conditions, other.conditions)))

BaseMeasurement_eq_SameClass(self, other) ==
    Effect(self,
           IF self.cls # other.cls THEN Return(FALSE)
           ELSE IF ~np_all(np_eq(self._values, other._values)) THEN Return(FALSE)
           ELSE IF ~AssayConditions_eq(self.conditions, other.conditions) THEN Return(FALSE)
           ELSE Return(System_eq(self.system, other.system)))

BaseMeasurement_eq(self, other) ==
    Effect(self,
           IF ~np_all(np_eq(self._values, other._values)) THEN Return(FALSE)
           ELSE IF ~AssayConditions_eq(self.conditions, other.conditions) THEN Return(FALSE)
           ELSE Return(System_eq(self.system, other.system)))

\* repr(self)
BaseMeasurement_repr(self) ==
    Effect(self, Return(<<"<", self.cls, " values=", self._values,
                          " conditions=", self.conditions,
                          " system=", self.system, ">">>))

(***************************************************************************)
(* Real numbers.  The formulas compute with logarithms, so a number is an  *)
(* exact polynomial, with rational coefficients and integer exponents, in  *)
(* the logarithms ln 10, ln 2, ln 3 and ln 1000001 (1 + 1e-6 is            *)
(* 1000001 / 10^6).  The four are logarithms of multiplicatively           *)
(* independent integers, so a number is zero only if it is the empty       *)
(* polynomial.  A number is a set of terms [c, e]: coefficient c = <<n, d>>*)
(* in lowest terms, exponents e, one term per e, no zero coefficient.      *)
(***************************************************************************)
RECURSIVE GCD(_, _)
GCD(m, n) == IF n = 0 THEN m ELSE GCD(n, m % n)
Abs(n) == IF n < 0 THEN -n ELSE n

Rat(n, d) ==
    LET g == GCD(Abs(n), Abs(d))
        sgn == IF d < 0 THEN -1 ELSE 1
    IN  <<(sgn * n) \div g, (sgn * d) \div g>>
RAdd(p, q) == Rat(p[1] * q[2] + q[1] * p[2], p[2] * q[2])
RMul(p, q) == Rat(p[1] * q[1], p[2] * q[2])
RNeg(p) == <<-p[1], p[2]>>
RInv(p) == Rat(p[2], p[1])

\* The bases of the logarithms, and exponent vectors over them.
LogBases == <<10, 2, 3, 1000001>>
NoExp == [i \in DOMAIN LogBases |-> 0]
UnitExp(k) == [i \in DOMAIN LogBases |-> IF i = k THEN 1 ELSE 0]
ExpAdd(e, f) == [i \in DOMAIN LogBases |-> e[i] + f[i]]
ExpNeg(e) == [i \in DOMAIN LogBases |-> -e[i]]

Const(r) == IF r[1] = 0 THEN {} ELSE {[c |-> r, e |-> NoExp]}
Num(n) == Const(<<n, 1>>)
Frac(n, d) == Const(Rat(n, d))
LogOfBase(k) == {[c |-> <<1, 1>>, e |-> UnitExp(k)]}

Exps(p) == {t.e : t \in p}
Coef(p, e) == IF e \in Exps(p) THEN (CHOOSE t \in p : t.e = e).c ELSE <<0, 1>>

Add(p, q) ==
    {t \in {[c |-> RAdd(Coef(p, e), Coef(q, e)), e |-> e] : e \in Exps(p) \cup Exps(q)} :
        t.c[1] # 0}
Neg(p) == {[c |-> RNeg(t.c), e |-> t.e] : t \in p}
Sub(p, q) == Add(p, Neg(q))

RECURSIVE SumOfProducts(_)
SumOfProducts(pairs) ==
    IF pairs = {} THEN <<0, 1>>
    ELSE LET x == CHOOSE x \in pairs : TRUE
         IN  RAdd(RMul(x[1].c, x[2].c), SumOfProducts(pairs \ {x}))

Mul(p, q) ==
    LET es == {ExpAdd(t.e, u.e) : t \in p, u \in q}
        coef(e) == SumOfProducts({x \in p \X q : ExpAdd(x[1].e, x[2].e) = e})
    IN  {t \in {[c |-> coef(e), e |-> e] : e \in es} : t.c[1] # 0}

\* p / q, for a divisor of one term (a rational, a power of a logarithm).
Div(p, q) ==
    LET u == CHOOSE u \in q : q = {u}
    IN  Mul(p, {[c |-> RInv(u.c), e |-> ExpNeg(u.e)]})

\* How often the integer q divides the positive integer n, and what is left.
RECURSIVE Valuation(_, _)
Valuation(n, q) == IF n % q = 0 THEN 1 + Valuation(n \div q, q) ELSE 0
RECURSIVE Strip(_, _)
Strip(n, q) == IF n % q = 0 THEN Strip(n \div q, q) ELSE n
Cofactor(n) == Strip(Strip(Strip(Strip(n, 2), 3), 5), 1000001)

IsRational(p) == p = {} \/ (\E t \in p : p = {t} /\ t.e = NoExp)
RationalOf(p) == Coef(p, NoExp)

\* The numbers whose logarithm the model writes down: 2^i 3^j 5^k 1000001^l.
LogDefined(p) ==
    /\ IsRational(p)
    /\ RationalOf(p)[1] > 0
    /\ Cofactor(RationalOf(p)[1]) = 1
    /\ Cofactor(RationalOf(p)[2]) = 1

Scale(n, p) == Mul(Num(n), p)

\* ln p, with ln 5 = ln 10 - ln 2.
Log(p) ==
    LET r == RationalOf(CHOOSE x \in {p} : LogDefined(x))
        val(q) == Valuation(r[1], q) - Valuation(r[2], q)
    IN  Add(Add(Scale(val(5), LogOfBase(1)), Scale(val(2) - val(5), LogOfBase(2))),
            Add(Scale(val(3), LogOfBase(3)), Scale(val(1000001), LogOfBase(4))))

\* The numbers whose exponential the model writes down: the integer
\* combinations of the four logarithms.
ExpDefined(p) ==
    \A t \in p : t.c[2] = 1 /\ (\E k \in DOMAIN LogBases : t.e = UnitExp(k))

RECURSIVE RPow(_, _)
RPow(r, n) == IF n = 0 THEN <<1, 1>>
              ELSE IF n < 0 THEN RPow(RInv(r), -n)
              ELSE RMul(r, RPow(r, n - 1))

RECURSIVE ExpOfTerms(_, _)
ExpOfTerms(p, k) ==
    IF k = 0 THEN <<1, 1>>
    ELSE RMul(RPow(<<LogBases[k], 1>>, Coef(p, UnitExp(k))[1]), ExpOfTerms(p, k - 1))

\* exp p
Exp(p) == Const(ExpOfTerms(CHOOSE x \in {p} : ExpDefined(x), Len(LogBases)))

(***************************************************************************)
(* The observation-model formulas.  dG_over_KT is an array (a sequence of  *)
(* numbers); kw holds the keyword arguments the caller passes, by name;    *)
(* dmatrix is the boosting library's matrix, whose get_label() gives the   *)
(* labels of the rows.                                                     *)
(***************************************************************************)
\* A keyword argument, or its default from the signature.
kwarg(kw, name, default) == IF name \in DOMAIN kw THEN kw[name] ELSE default

\* array op scalar, element by element.
Map(F(_), xs) == [i \in DOMAIN xs |-> F(xs[i])]

BaseMeasurement_observation_model_pytorch(args, kw) ==
    Raise("NotImplementedError", <<"Implement in your subclass!">>)

BaseMeasurement_observation_model_xgboost(args, kw) ==
    Raise("NotImplementedError", <<"Implement in your subclass!">>)

PercentageDisplacementMeasurement_observation_model_pytorch(dG_over_KT, kw) ==
    Return(Map(LAMBDA x :
                   Mul(Num(100),
                       Sub(Num(1), Div(Num(1), Add(Num(1), Div(Num(1), Exp(x)))))),
               dG_over_KT))

PercentageDisplacementMeasurement_observation_model_xgboost(dG_over_KT, dmatrix, kw) ==
    Raise("NotImplementedError", <<>>)

pIC50Measurement_observation_model_pytorch_NoOnePlus(dG_over_KT, kw) ==
    LET substrate_conc == kwarg(kw, "substrate_conc", Frac(1, 1000000))
        michaelis_constant == kwarg(kw, "michaelis_constant", Num(1))
        inhibitor_conc == kwarg(kw, "inhibitor_conc", Num(1))
    IN  Return(Map(LAMBDA x :
                       Div(Mul(Neg(Add(x, Log(Mul(Div(substrate_conc, michaelis_constant),
                                                  inhibitor_conc)))),
                               Num(1)),
                           Log(Num(10))),
                   dG_over_KT))

pIC50Measurement_observation_model_pytorch(dG_over_KT, kw) ==
    LET substrate_conc == kwarg(kw, "substrate_conc", Frac(1, 1000000))
        michaelis_constant == kwarg(kw, "michaelis_constant", Num(1))
        inhibitor_conc == kwarg(kw, "inhibitor_conc", Num(1))
    IN  Return(Map(LAMBDA x :
                       Div(Mul(Neg(Add(x, Log(Mul(Add(Num(1),
                                                      Div(substrate_conc,
                                                          michaelis_constant)),
                                                  inhibitor_conc)))),
                               Num(1)),
                           Log(Num(10))),
                   dG_over_KT))

pIC50Measurement_observation_model_xgboost_WrongSign(dG_over_KT, dmatrix, kw) ==
    LET substrate_conc == kwarg(kw, "substrate_conc", Frac(1, 1000000))
        michaelis_constant == kwarg(kw, "michaelis_constant", Num(1))
        inhibitor_conc == kwarg(kw, "inhibitor_conc", Num(1))
        LN10 == Log(Num(10))
        labels == dmatrix.label
        constant == Div(Log(Mul(Add(Num(1), Div(substrate_conc, michaelis_constant)),
                                inhibitor_conc)),
                        LN10)
        grad == [i \in DOMAIN dG_over_KT |->
                    Div(Mul(Sub(Sub(Neg(Div(dG_over_KT[i], LN10)), constant), labels[i]),
                            Num(1)),
                        LN10)]
        hess == [i \in DOMAIN grad |-> Div(Num(1), Mul(LN10, LN10))]
    IN  Return(<<grad, hess>>)

pIC50Measurement_observation_model_xgboost(dG_over_KT, dmatrix, kw) ==
    LET substrate_conc == kwarg(kw, "substrate_conc", Frac(1, 1000000))
        michaelis_constant == kwarg(kw, "michaelis_constant", Num(1))
        inhibitor_conc == kwarg(kw, "inhibitor_conc", Num(1))
        LN10 == Log(Num(10))
        labels == dmatrix.label
        constant == Div(Log(Mul(Add(Num(1), Div(substrate_conc, michaelis_constant)),
                                inhibitor_conc)),
                        LN10)
        grad == [i \in DOMAIN dG_over_KT |->
                    Div(Mul(Add(Add(labels[i], Div(dG_over_KT[i], LN10)), constant),
                            Num(1)),
                        LN10)]
        hess == [i \in DOMAIN grad |-> Div(Num(1), Mul(LN10, LN10))]
    IN  Return(<<grad, hess>>)

pKiMeasurement_observation_model_pytorch_NoLog(dG_over_KT, kw) ==
    LET inhibitor_conc == kwarg(kw, "inhibitor_conc", Num(1))
    IN  Return(Map(LAMBDA x :
                       Div(Mul(Neg(Add(x, inhibitor_conc)), Num(1)), Log(Num(10))),
                   dG_over_KT))

pKiMeasurement_observation_model_pytorch(dG_over_KT, kw) ==
    LET inhibitor_conc == kwarg(kw, "inhibitor_conc", Num(1))
    IN  Return(Map(LAMBDA x :
                       Div(Mul(Neg(Add(x, Log(inhibitor_conc))), Num(1)), Log(Num(10))),
                   dG_over_KT))

pKiMeasurement_observation_model_xgboost(dG_over_KT, dmatrix, kw) ==
    Raise("NotImplementedError", <<>>)

pKdMeasurement_observation_model_pytorch(dG_over_KT, kw) ==
    LET inhibitor_conc == kwarg(kw, "inhibitor_conc", Num(1))
    IN  Return(Map(LAMBDA x :
                       Div(Mul(Neg(Add(x, Log(inhibitor_conc))), Num(1)), Log(Num(10))),
                   dG_over_KT))

pKdMeasurement_observation_model_xgboost(dG_over_KT, dmatrix, kw) ==
    Raise("NotImplementedError", <<>>)

null_observation_model(arg) == Return(arg)

(***************************************************************************)
(* The inputs the model draws from.                                        *)
(***************************************************************************)
SeqsUpTo(S, n) == UNION {[1..k -> S] : k \in 0..n}

\* Measurement values at and around the bounds of both ranges.
Floats == {Float(-1), Float(0), Float(15), Float(16), Float(100), Float(101), NaN}
\* Elements of the iterables: in both ranges, in [0, 100] only, in neither.
IterFloats == {Float(0), Float(16), Float(101)}

ValuesIn == {Scalar(x) : x \in Floats} \cup {Iterable(xs) : xs \in SeqsUpTo(IterFloats, MaxLen)}
\* errors: the default np.nan, a scalar, or an iterable of 1..MaxLen errors.
ErrorsIn == {Scalar(NaN), Scalar(Float(1))}
            \cup {Iterable([i \in 1..k |-> Float(1)]) : k \in 1..MaxLen}

Conditions == {"pH 7", "pH 8"}
Systems == {"ABL1 + imatinib", "EGFR + gefitinib"}
GroupsIn == {None, Some({}), Some({"train"})}
MetadataIn == {None, Some({<<"source", "ChEMBL">>})}

\* Every construction: one measurement from any arguments.
InitArgs ==
    [cls : Classes, values : ValuesIn, errors : ErrorsIn, conditions : Conditions,
     system : Systems, groups : GroupsIn, strict : BOOLEAN, metadata : MetadataIn]

\* The constructions of the lifecycle.
LifeArgs ==
    [cls : Classes, values : {Scalar(Float(0)), Scalar(Float(101))},
     errors : {Scalar(NaN), Scalar(Float(1))}, conditions : {"pH 7"},
     system : {"ABL1 + imatinib"}, groups : {Some({"train"})}, strict : BOOLEAN,
     metadata : {Some({<<"source", "ChEMBL">>})}]

\* The constructions of the two measurements that are compared.
EqArgs ==
    [cls : Classes, values : {Scalar(Float(0)), Scalar(Float(16)), Scalar(NaN)},
     errors : {Scalar(NaN)}, conditions : Conditions, system : Systems,
     groups : {None}, strict : {TRUE}, metadata : {None}]
    \cup
    [cls : Classes, values : {Scalar(Float(0)), Scalar(Float(16)), Scalar(NaN)},
     errors : {Scalar(Float(1))}, conditions : Conditions, system : Systems,
     groups : {Some({"train"})}, strict : {FALSE},
     metadata : {Some({<<"source", "ChEMBL">>})}]

Backends == {"pytorch", "xgboost", "tensorflow", ""}

(***************************************************************************)
(* State: the caller's two names a and b, each unbound or bound to a       *)
(* measurement; the names whose measurement was built with strict=True;    *)
(* the constructions the caller is about to make (pending) and the last    *)
(* call made with its outcome (last).                                      *)
(***************************************************************************)
Slots == {"a", "b"}
Slot(s) == IF s = "a" THEN a ELSE b
Bound(s) == Slot(s) # None
Obj(s) == Slot(s)[1]

NoCall == [op |-> "none"]

\* The caller is about to run a = cls(argsA); b = cls(argsB).
Program(argsA, argsB) == <<[slot |-> "a", args |-> argsA], [slot |-> "b", args |-> argsB]>>

InitWith(programs) ==
    /\ a = None
    /\ b = None
    /\ strictBuilt = {}
    /\ pending \in programs
    /\ last = NoCall

\* The state after self.m(...) on the measurement of name s.
Called(s, t, op, eff) ==
    /\ a' = IF s = "a" THEN Some(eff.self) ELSE a
    /\ b' = IF s = "b" THEN Some(eff.self) ELSE b
    /\ last' = [op |-> op, slot |-> s, other |-> t, out |-> eff.out]
    /\ UNCHANGED <<strictBuilt, pending>>

\* s = cls(...): the name is bound only when the constructor returns.
Construct ==
    /\ pending # <<>>
    /\ LET s == Head(pending).slot
           args == Head(pending).args
           r == BaseMeasurement_init(args)
       IN  /\ a' = IF s = "a" /\ ~r.raised THEN Some(r.ret) ELSE a
           /\ b' = IF s = "b" /\ ~r.raised THEN Some(r.ret) ELSE b
           /\ strictBuilt' = IF ~r.raised /\ args.strict
                             THEN strictBuilt \cup {s} ELSE strictBuilt
           /\ last' = [op |-> "__init__", slot |-> s, other |-> s, args |-> args,
                       out |-> IF r.raised THEN r ELSE Return("None")]
    /\ pending' = Tail(pending)

GetValues(s) == Bound(s) /\ Called(s, s, "values", BaseMeasurement_values(Obj(s)))
GetErrors(s) == Bound(s) /\ Called(s, s, "errors", BaseMeasurement_errors(Obj(s)))
SetValues(s, v) ==
    Bound(s) /\ Called(s, s, "values=", BaseMeasurement_set_values(Obj(s), v))
SetErrors(s, v) ==
    Bound(s) /\ Called(s, s, "errors=", BaseMeasurement_set_errors(Obj(s), v))
Check(s) == Bound(s) /\ Called(s, s, "check", check(Obj(s)))
ObservationModel(s, backend) ==
    /\ Bound(s)
    /\ LET out == BaseMeasurement_observation_model(Obj(s).cls, backend)
       IN  /\ last' = [op |-> "observation_model", slot |-> s, other |-> s,
                       backend |-> backend, out |-> out]
           /\ UNCHANGED <<a, b, strictBuilt, pending>>
Eq(s, t) ==
    Bound(s) /\ Bound(t) /\ Called(s, t, "__eq__", BaseMeasurement_eq(Obj(s), Obj(t)))
Repr(s) == Bound(s) /\ Called(s, s, "__repr__", BaseMeasurement_repr(Obj(s)))

(***************************************************************************)
(* Spec: the lifecycle of two measurements, every operation in any order.  *)
(***************************************************************************)
Init == InitWith({Program(x, y) : x, y \in LifeArgs})

Next ==
    \/ Construct
    \/ \E s \in Slots : GetValues(s)
    \/ \E s \in Slots : GetErrors(s)
    \/ \E s \in Slots, v \in {<<Float(0)>>} : SetValues(s, v)
    \/ \E s \in Slots, v \in {<<Float(0)>>} : SetErrors(s, v)
    \/ \E s \in Slots : Check(s)
    \/ \E s \in Slots, backend \in Backends : ObservationModel(s, backend)
    \/ \E s, t \in Slots : Eq(s, t)
    \/ \E s \in Slots : Repr(s)

Spec == Init /\ [][Next]_vars

(***************************************************************************)
(* SpecInit: one construction, from any arguments, and a check() of what   *)
(* it built.                                                               *)
(***************************************************************************)
InitInit == InitWith({<<[slot |-> "a", args |-> x]>> : x \in InitArgs})

NextInit ==
    \/ Construct
    \/ \E s \in Slots : Check(s)

SpecInit == InitInit /\ [][NextInit]_vars

(***************************************************************************)
(* SpecEq: two constructions and the comparisons of what they built.       *)
(***************************************************************************)
InitEq == InitWith({Program(x, y) : x, y \in EqArgs})

NextEq ==
    \/ Construct
    \/ \E s, t \in Slots : Eq(s, t)

SpecEq == InitEq /\ [][NextEq]_vars

(***************************************************************************)
(* SpecFormula: one call of one formula, the formula being what            *)
(* observation_model gave for a class and a backend, or of the helper      *)
(* null_observation_model.                                                 *)
(***************************************************************************)
LN10 == LogOfBase(1)

\* Latent inputs: 0, 1, ln 10 and -ln 10.
Latents == {Num(0), Num(1), LN10, Neg(LN10)}
LabelValues == {Num(0), Num(7)}
Arrays(S) == UNION {[1..k -> S] : k \in 1..MaxRows}

\* The values a caller passes for a keyword; 1e-6 and 1 are the defaults of
\* substrate_conc and of the two others, temperature is no parameter.
KwValues(name) ==
    CASE name = "inhibitor_conc" -> {Num(1), Num(10)}
      [] name = "substrate_conc" -> {Frac(1, 1000000), Num(2), Num(9)}
      [] name = "michaelis_constant" -> {Num(1), Num(2)}
      [] name = "temperature" -> {Num(300)}

\* Every way to pass some of the keywords.
Kws(names) ==
    UNION {{kw \in [D -> UNION {KwValues(n) : n \in D}] :
                \A n \in D : kw[n] \in KwValues(n)} : D \in SUBSET names}

Method(cls, backend) == BaseMeasurement_observation_model(cls, backend).ret

\* The argument of the logarithm of the pIC50 formulas.
ChengPrusoffFactor(kw) ==
    Mul(Add(Num(1), Div(kwarg(kw, "substrate_conc", Frac(1, 1000000)),
                        kwarg(kw, "michaelis_constant", Num(1)))),
        kwarg(kw, "inhibitor_conc", Num(1)))

pIC50Kws ==
    {kw \in Kws({"substrate_conc", "michaelis_constant", "inhibitor_conc"}) :
        LogDefined(ChengPrusoffFactor(kw))}

\* For the boosting formula: no keyword passed at its default, fewer latents.
BoostingKws ==
    {kw \in pIC50Kws :
        /\ kwarg(kw, "substrate_conc", Num(2)) # Frac(1, 1000000)
        /\ kwarg(kw, "michaelis_constant", Num(2)) # Num(1)
        /\ kwarg(kw, "inhibitor_conc", Num(10)) # Num(1)}
BoostingLatents == {Num(0), Num(1), Neg(LN10)}

PytorchCalls ==
    [fn : {Method("BaseMeasurement", "pytorch")}, dG : Arrays({Num(0)}), kw : Kws({})]
    \cup [fn : {Method("PercentageDisplacementMeasurement", "pytorch")},
          dG : Arrays({x \in Latents : ExpDefined(x)}), kw : Kws({"inhibitor_conc"})]
    \cup [fn : {Method("pIC50Measurement", "pytorch")}, dG : Arrays(Latents), kw : pIC50Kws]
    \cup [fn : {Method("pKiMeasurement", "pytorch"), Method("pKdMeasurement", "pytorch")},
          dG : Arrays(Latents), kw : Kws({"inhibitor_conc", "temperature"})]

XgboostCalls ==
    [fn : {Method(cls, "xgboost") : cls \in Classes \ {"pIC50Measurement"}},
     dG : Arrays({Num(0)}), dmatrix : [label : Arrays({Num(0)})], kw : Kws({"inhibitor_conc"})]
    \cup {c \in [fn : {Method("pIC50Measurement", "xgboost")}, dG : Arrays(BoostingLatents),
                 dmatrix : [label : Arrays(LabelValues)], kw : BoostingKws] :
              Len(c.dmatrix.label) = Len(c.dG)}

NullCalls == [fn : {[owner |-> "module", name |-> "null_observation_model"]},
              arg : Arrays(Latents)]

IsCall(owner, name) ==
    pending # <<>> /\ Head(pending).fn = [owner |-> owner, name |-> name]

Invoked(out) ==
    /\ last' = [op |-> "call", call |-> Head(pending), out |-> out]
    /\ pending' = Tail(pending)
    /\ UNCHANGED <<a, b, strictBuilt>>

Call_BaseMeasurement_pytorch ==
    /\ IsCall("BaseMeasurement", "_observation_model_pytorch")
    /\ Invoked(BaseMeasurement_observation_model_pytorch(<<Head(pending).dG>>,
                                                         Head(pending).kw))
Call_BaseMeasurement_xgboost ==
    /\ IsCall("BaseMeasurement", "_observation_model_xgboost")
    /\ Invoked(BaseMeasurement_observation_model_xgboost(
                   <<Head(pending).dG, Head(pending).dmatrix>>, Head(pending).kw))
Call_PercentageDisplacement_pytorch ==
    /\ IsCall("PercentageDisplacementMeasurement", "_observation_model_pytorch")
    /\ Invoked(PercentageDisplacementMeasurement_observation_model_pytorch(
                   Head(pending).dG, Head(pending).kw))
Call_PercentageDisplacement_xgboost ==
    /\ IsCall("PercentageDisplacementMeasurement", "_observation_model_xgboost")
    /\ Invoked(PercentageDisplacementMeasurement_observation_model_xgboost(
                   Head(pending).dG, Head(pending).dmatrix, Head(pending).kw))
Call_pIC50_pytorch ==
    /\ IsCall("pIC50Measurement", "_observation_model_pytorch")
    /\ Invoked(pIC50Measurement_observation_model_pytorch(Head(pending).dG,
                                                          Head(pending).kw))
Call_pIC50_xgboost ==
    /\ IsCall("pIC50Measurement", "_observation_model_xgboost")
    /\ Invoked(pIC50Measurement_observation_model_xgboost(
                   Head(pending).dG, Head(pending).dmatrix, Head(pending).kw))
Call_pKi_pytorch ==
    /\ IsCall("pKiMeasurement", "_observation_model_pytorch")
    /\ Invoked(pKiMeasurement_observation_model_pytorch(Head(pending).dG,
                                                        Head(pending).kw))
Call_pKi_xgboost ==
    /\ IsCall("pKiMeasurement", "_observation_model_xgboost")
    /\ Invoked(pKiMeasurement_observation_model_xgboost(
                   Head(pending).dG, Head(pending).dmatrix, Head(pending).kw))
Call_pKd_pytorch ==
    /\ IsCall("pKdMeasurement", "_observation_model_pytorch")
    /\ Invoked(pKdMeasurement_observation_model_pytorch(Head(pending).dG,
                                                        Head(pending).kw))
Call_pKd_xgboost ==
    /\ IsCall("pKdMeasurement", "_observation_model_xgboost")
    /\ Invoked(pKdMeasurement_observation_model_xgboost(
                   Head(pending).dG, Head(pending).dmatrix, Head(pending).kw))
Call_null_observation_model ==
    /\ IsCall("module", "null_observation_model")
    /\ Invoked(null_observation_model(Head(pending).arg))

InitFormula ==
    InitWith({<<c>> : c \in PytorchCalls} \cup {<<c>> : c \in XgboostCalls}
             \cup {<<c>> : c \in NullCalls})

NextFormula ==
    \/ Call_BaseMeasurement_pytorch
    \/ Call_BaseMeasurement_xgboost
    \/ Call_PercentageDisplacement_pytorch
    \/ Call_PercentageDisplacement_xgboost
    \/ Call_pIC50_pytorch
    \/ Call_pIC50_xgboost
    \/ Call_pKi_pytorch
    \/ Call_pKi_xgboost
    \/ Call_pKd_pytorch
    \/ Call_pKd_xgboost
    \/ Call_null_observation_model

SpecFormula == InitFormula /\ [][NextFormula]_vars

(***************************************************************************)
(* The ranges the specification declares for the subtypes.                 *)
(***************************************************************************)
DeclaredUpper(cls) == IF cls = "PercentageDisplacementMeasurement" THEN 100 ELSE 15
InDeclaredRange(cls, x) == ~x.nan /\ 0 <= x.v /\ x.v <= DeclaredUpper(cls)
DeclaredRangeText(cls) ==
    IF cls = "PercentageDisplacementMeasurement" THEN "[0, 100]" ELSE "[0, 15]"

\* The last call was the construction of a subtype from N >= 1 values and
\* N' >= 1 errors.
Constructed ==
    /\ last.op = "__init__"
    /\ last.args.cls \in Subclasses
    /\ Len(last.args.values.data) >= 1
    /\ Len(last.args.errors.data) >= 1

AllInRange(args) ==
    \A i \in DOMAIN args.values.data : InDeclaredRange(args.cls, args.values.data[i])

(***************************************************************************)
(* C1.  A strict construction of a subtype whose values all lie in the     *)
(* declared range, given as a scalar or as an iterable of any length       *)
(* N >= 1, succeeds, and afterwards the stored values and errors are the   *)
(* vectors of exactly the supplied data.                                   *)
(***************************************************************************)
C1_StrictInRangeStoresData ==
    (Constructed /\ last.args.strict /\ AllInRange(last.args))
        => /\ ~last.out.raised
           /\ Bound(last.slot)
           /\ Obj(last.slot)._values = last.args.values.data
           /\ Obj(last.slot)._errors = last.args.errors.data

\* The part of C1 the code keeps: one value and one error, scalar or iterable.
C1_OneValueStoresData ==
    (Constructed /\ last.args.strict /\ AllInRange(last.args)
     /\ Len(last.args.values.data) = 1 /\ Len(last.args.errors.data) = 1)
        => /\ ~last.out.raised
           /\ Bound(last.slot)
           /\ Obj(last.slot)._values = last.args.values.data
           /\ Obj(last.slot)._errors = last.args.errors.data

(***************************************************************************)
(* C2.  Range policy at construction: with strict=True the construction of *)
(* a subtype fails with the validation error whenever at least one value   *)
(* is outside the declared range (bounds inclusive), and with strict=False *)
(* it succeeds for any values.                                             *)
(***************************************************************************)
IsValidationError(out) == out.raised /\ out.exc.type = "AssertionError"

C2_RangePolicy ==
    (Constructed /\ Len(last.args.errors.data) = 1)
        => IF last.args.strict
           THEN (~AllInRange(last.args)) => IsValidationError(last.out)
           ELSE ~last.out.raised

\* The part of C2 the code keeps: the policy on one value.
C2_OneValueRangePolicy ==
    (Constructed /\ Len(last.args.values.data) = 1 /\ Len(last.args.errors.data) = 1)
        => IF last.args.strict
           THEN IsValidationError(last.out) <=> ~AllInRange(last.args)
           ELSE ~last.out.raised

(***************************************************************************)
(* C5.  The validation error of a failing range check, at a strict         *)
(* construction or at a direct check(), carries a message that names the   *)
(* measurement class and the expected range.                               *)
(***************************************************************************)
CheckedClass == IF last.op = "__init__" THEN last.args.cls ELSE Obj(last.slot).cls

C5_MessageNamesClassAndRange ==
    (last.op \in {"__init__", "check"} /\ IsValidationError(last.out))
        => /\ \E i \in DOMAIN last.out.exc.msg : last.out.exc.msg[i] = CheckedClass
           /\ \E i \in DOMAIN last.out.exc.msg :
                  last.out.exc.msg[i] = DeclaredRangeText(CheckedClass)

\* The part of C5 the code keeps: every message names the range, and the
\* messages of the three [0, 15] classes name the class.
C5_MessageNamesRange ==
    (last.op \in {"__init__", "check"} /\ IsValidationError(last.out))
        => /\ \E i \in DOMAIN last.out.exc.msg :
                  last.out.exc.msg[i] = DeclaredRangeText(CheckedClass)
           /\ CheckedClass # "PercentageDisplacementMeasurement"
                  => \E i \in DOMAIN last.out.exc.msg : last.out.exc.msg[i] = CheckedClass

(***************************************************************************)
(* C3.  observation_model(backend) raises the unsupported-backend error    *)
(* when the (class, backend) pair has no implemented formula, the pairs    *)
(* whose formula is an unimplemented placeholder included, and otherwise   *)
(* returns the formula itself, not invoked.                                *)
(***************************************************************************)
IsUnsupportedBackendError(out, cls, backend) ==
    /\ out.raised
    /\ out.exc.type = "NotImplementedError"
    /\ out.exc.msg = <<"Observation model for backend ", backend,
                       " is not available for ", cls, " types">>

HasImplementedFormula(cls, backend) ==
    LET method == getattr(cls, "_observation_model_" \o backend)
    IN  ~method.raised /\ ~IsPlaceholder(method.ret)

C3_RaisesUnlessImplemented ==
    last.op = "observation_model"
        => LET cls == Obj(last.slot).cls
           IN  IF HasImplementedFormula(cls, last.backend)
               THEN ~last.out.raised
               ELSE IsUnsupportedBackendError(last.out, cls, last.backend)

(***************************************************************************)
(* C3, amended.  observation_model(backend) raises the unsupported-backend *)
(* error exactly when the class and its bases define no method named       *)
(* _observation_model_<backend>; BaseMeasurement defines that method for   *)
(* pytorch and xgboost and every subclass overrides both, so for these two *)
(* backends the lookup returns the class's own method, a placeholder       *)
(* included, and never invokes it.                                         *)
(***************************************************************************)
C3_RaisesOnlyWithoutMethod ==
    last.op = "observation_model"
        => LET cls == Obj(last.slot).cls
           IN  IF last.backend \in {"pytorch", "xgboost"}
               THEN /\ ~last.out.raised
                    /\ last.out.ret.owner = cls
                    /\ last.out.ret.name = "_observation_model_" \o last.backend
               ELSE IsUnsupportedBackendError(last.out, cls, last.backend)

\* A placeholder pair was looked up and its method came back.
C3_Witness ==
    /\ last.op = "observation_model"
    /\ Obj(last.slot).cls = "pKiMeasurement"
    /\ last.backend = "xgboost"
    /\ ~last.out.raised
    /\ IsPlaceholder(last.out.ret)

(***************************************************************************)
(* C4.  a == b is true when the values are element-wise equal (as floats:  *)
(* not-a-number equals nothing) and the conditions are equal and the       *)
(* systems are equal, and false when a and b differ in any of the three.   *)
(***************************************************************************)
ValuesEqual(x, y) ==
    /\ Len(x._values) = Len(y._values)
    /\ \A i \in DOMAIN x._values :
           /\ ~x._values[i].nan
           /\ ~y._values[i].nan
           /\ x._values[i].v = y._values[i].v

C4_EqualIffAllThreeEqual ==
    last.op = "__eq__"
        => LET x == Obj(last.slot)
               y == Obj(last.other)
           IN  /\ ~last.out.raised
               /\ last.out.ret = TRUE
                    <=> /\ ValuesEqual(x, y)
                        /\ x.conditions = y.conditions
                        /\ x.system = y.system

\* Two measurements that differ only in the system were compared.
C4_Witness ==
    /\ last.op = "__eq__"
    /\ last.slot # last.other
    /\ ValuesEqual(a[1], b[1])
    /\ a[1].conditions = b[1].conditions
    /\ a[1].system # b[1].system
    /\ last.out.ret = FALSE

(***************************************************************************)
(* C10.  Equality depends on nothing but values, conditions and system:    *)
(* measurements that agree on the three compare equal even when they are   *)
(* of different classes or differ in errors, groups, metadata or the       *)
(* strict flag.                                                            *)
(***************************************************************************)
C10_EqualAcrossKinds ==
    (/\ last.op = "__eq__"
     /\ ValuesEqual(Obj(last.slot), Obj(last.other))
     /\ Obj(last.slot).conditions = Obj(last.other).conditions
     /\ Obj(last.slot).system = Obj(last.other).system)
        => ~last.out.raised /\ last.out.ret = TRUE

\* A pKi and a pKd measurement that differ in errors, groups, metadata and
\* the strict flag compared equal.
C10_Witness ==
    /\ last.op = "__eq__"
    /\ last.slot = "a"
    /\ last.other = "b"
    /\ a[1].cls = "pKiMeasurement"
    /\ b[1].cls = "pKdMeasurement"
    /\ a[1]._errors # b[1]._errors
    /\ a[1].groups # b[1].groups
    /\ a[1].metadata # b[1].metadata
    /\ "a" \in strictBuilt
    /\ "b" \notin strictBuilt
    /\ last.out.ret = TRUE

(***************************************************************************)
(* C9.  Once a measurement is constructed, no operation it offers changes  *)
(* its values, errors, conditions, system, groups or metadata; assigning   *)
(* to values or errors is refused; and so a measurement built with         *)
(* strict=True stays in the range of its class.                            *)
(***************************************************************************)
StrictBuiltInRange ==
    \A s \in strictBuilt :
        /\ Bound(s)
        /\ Obj(s).cls \in Subclasses
               => \A i \in DOMAIN Obj(s)._values :
                      InDeclaredRange(Obj(s).cls, Obj(s)._values[i])

C9_ReadOnly ==
    [][/\ (a # None) => (a' = a)
       /\ (b # None) => (b' = b)
       /\ (last'.op \in {"values=", "errors="})
              => (last'.out.raised /\ last'.out.exc.type = "AttributeError")
       /\ StrictBuiltInRange']_vars

\* An assignment to the values of a strictly built measurement was refused.
C9_Witness ==
    /\ last.op = "values="
    /\ last.slot \in strictBuilt
    /\ Obj(last.slot).cls = "PercentageDisplacementMeasurement"
    /\ last.out.raised

(***************************************************************************)
(* Claims about the formulas.                                              *)
(***************************************************************************)
CallOf(cls, backend) ==
    /\ last.op = "call"
    /\ last.call.fn = [owner |-> cls, name |-> "_observation_model_" \o backend]

\* The value a parameter of the last call had, passed or defaulted.
Passed(name, default) == kwarg(last.call.kw, name, default)

AtZeroWithUnitConc ==
    /\ last.call.dG = <<Num(0)>>
    /\ Passed("inhibitor_conc", Num(1)) = Num(1)

AtZeroWithDefaults ==
    /\ AtZeroWithUnitConc
    /\ Passed("substrate_conc", Frac(1, 1000000)) = Frac(1, 1000000)
    /\ Passed("michaelis_constant", Num(1)) = Num(1)

(***************************************************************************)
(* C6.  Literal values of the array-backend formulas: pKd at x = 0, C = 1  *)
(* gives 0; pIC50 at x = 0, S = 1e-6, Km = 1, C = 1 gives 0;               *)
(* PercentageDisplacement at x = 0 gives 50.                               *)
(***************************************************************************)
C6_LiteralValues ==
    /\ (CallOf("pKdMeasurement", "pytorch") /\ AtZeroWithUnitConc)
           => last.out = Return(<<Num(0)>>)
    /\ (CallOf("pIC50Measurement", "pytorch") /\ AtZeroWithDefaults)
           => last.out = Return(<<Num(0)>>)
    /\ (CallOf("PercentageDisplacementMeasurement", "pytorch")
        /\ last.call.dG = <<Num(0)>>)
           => last.out = Return(<<Num(50)>>)

(***************************************************************************)
(* C6, amended.  pKd at x = 0, C = 1 gives 0 and PercentageDisplacement at *)
(* x = 0 gives 50; pIC50 at x = 0, S = 1e-6, Km = 1, C = 1 gives           *)
(* -ln(1.000001) / ln(10) = -(ln 1000001 - 6 ln 10) / ln 10, about         *)
(* -4.34e-7, which is not 0.                                               *)
(***************************************************************************)
MinusLog10OfOnePlusMillionth ==
    Neg(Div(Sub(LogOfBase(4), Scale(6, LN10)), LN10))

C6_LiteralValuesAmended ==
    /\ (CallOf("pKdMeasurement", "pytorch") /\ AtZeroWithUnitConc)
           => last.out = Return(<<Num(0)>>)
    /\ (CallOf("pIC50Measurement", "pytorch") /\ AtZeroWithDefaults)
           => /\ last.out = Return(<<MinusLog10OfOnePlusMillionth>>)
              /\ last.out.ret[1] # Num(0)
    /\ (CallOf("PercentageDisplacementMeasurement", "pytorch")
        /\ last.call.dG = <<Num(0)>>)
           => last.out = Return(<<Num(50)>>)

\* The pIC50 formula was evaluated at x = 0 with every parameter defaulted.
C6_Witness ==
    /\ CallOf("pIC50Measurement", "pytorch")
    /\ last.call.dG = <<Num(0)>>
    /\ DOMAIN last.call.kw = {}
    /\ ~last.out.raised

(***************************************************************************)
(* C7.  The pIC50 gradient-boosting formula returns (gradient, Hessian):   *)
(* row by row the gradient is the first derivative in x of the loss        *)
(* 1/2 (F(x) - label)^2, F being the pIC50 array-backend formula with the  *)
(* same S, Km and C, that is (label + x/ln10 + ln((1 + S/Km) C)/ln10)/ln10,*)
(* and the Hessian is the second derivative, 1/ln10^2 in every row, of the *)
(* gradient's shape.  The loss being a polynomial of degree two in x, its  *)
(* central difference quotients are its derivatives for every step.        *)
(***************************************************************************)
Steps == {Frac(1, 2), LN10}

Prediction(x, kw) == pIC50Measurement_observation_model_pytorch(<<x>>, kw).ret[1]
Loss(x, label, kw) ==
    LET d == Sub(Prediction(x, kw), label)
    IN  Mul(Frac(1, 2), Mul(d, d))
FirstDerivative(ahead, behind, h) == Div(Sub(ahead, behind), Mul(Num(2), h))
SecondDerivative(ahead, here, behind, h) ==
    Div(Add(Sub(ahead, Scale(2, here)), behind), Mul(h, h))

C7_GradientAndHessianOfLoss ==
    CallOf("pIC50Measurement", "xgboost")
        => LET x == last.call.dG
               labels == last.call.dmatrix.label
               kw == last.call.kw
               grad == last.out.ret[1]
               hess == last.out.ret[2]
               constant == Div(Log(ChengPrusoffFactor(kw)), LN10)
           IN  /\ ~last.out.raised
               /\ DOMAIN grad = DOMAIN x
               /\ DOMAIN hess = DOMAIN grad
               /\ \A i \in DOMAIN x :
                      /\ \A h \in Steps :
                             LET ahead == Loss(Add(x[i], h), labels[i], kw)
                                 here == Loss(x[i], labels[i], kw)
                                 behind == Loss(Sub(x[i], h), labels[i], kw)
                             IN  /\ grad[i] = FirstDerivative(ahead, behind, h)
                                 /\ hess[i] = SecondDerivative(ahead, here, behind, h)
                      /\ grad[i] = Div(Add(Add(labels[i], Div(x[i], LN10)), constant), LN10)
                      /\ hess[i] = Div(Num(1), Mul(LN10, LN10))

\* Gradient and Hessian were computed for two different rows with a substrate
\* concentration passed.
C7_Witness ==
    /\ CallOf("pIC50Measurement", "xgboost")
    /\ Len(last.call.dG) = 2
    /\ last.call.dG[1] # last.call.dG[2]
    /\ "substrate_conc" \in DOMAIN last.call.kw
    /\ ~last.out.raised
    /\ last.out.ret[1][1] # last.out.ret[1][2]

(***************************************************************************)
(* C8.  The pKi and the pKd array-backend formulas are one function: for   *)
(* every x and every C, passed or defaulted to 1, and whatever other       *)
(* keywords are passed, both give -(x + ln C) / ln 10.                     *)
(***************************************************************************)
C8_pKiIspKd ==
    /\ CallOf("pKiMeasurement", "pytorch")
           => last.out = pKdMeasurement_observation_model_pytorch(last.call.dG,
                                                                  last.call.kw)
    /\ CallOf("pKdMeasurement", "pytorch")
           => last.out = pKiMeasurement_observation_model_pytorch(last.call.dG,
                                                                  last.call.kw)
    /\ (CallOf("pKiMeasurement", "pytorch") \/ CallOf("pKdMeasurement", "pytorch"))
           => /\ ~last.out.raised
              /\ DOMAIN last.out.ret = DOMAIN last.call.dG
              /\ \A i \in DOMAIN last.call.dG :
                     Add(Mul(last.out.ret[i], LN10),
                         Add(last.call.dG[i], Log(Passed("inhibitor_conc", Num(1)))))
                         = Num(0)

\* The pKi formula was evaluated with a concentration other than 1 and a
\* keyword it does not know.
C8_Witness ==
    /\ CallOf("pKiMeasurement", "pytorch")
    /\ DOMAIN last.call.kw = {"inhibitor_conc", "temperature"}
    /\ last.call.kw["inhibitor_conc"] = Num(10)
    /\ ~last.out.raised

====
